---- MODULE Spec2Model ----
(***************************************************************************)
(* State-machine model of mcb-proxies: the proxy store and the source      *)
(* store (two document collections), the coroutines that run               *)
(* ProxyService.check, ProxyService.check_next, SourceService.check,       *)
(* SourceService.check_next and SourceService.delete, and the wall clock.  *)
(* Every await of the code is a step boundary: a coroutine's position is   *)
(* its pc, and a store call takes effect atomically at the step where it   *)
(* lands.  Time is counted in minutes.                                     *)
(***************************************************************************)
EXTENDS Integers, Sequences, FiniteSets, TLC

\* ------------------------------------------------------------------ bounds
MaxProxies == 3         \* ObjectIds handed out to inserted Proxy documents
MaxRuns == 1            \* runs of a check_next that the scheduler starts
MaxCalls == 1           \* requests of each kind that the API serves
MaxFires == 2           \* executions of each job where the scheduler runs alone
MaxRecords == 5         \* calls of record_operation where the counter runs alone
max_proxies_check == 2  \* settings.max_proxies_check of this deployment

\* ------------------------------------------------------- program constants
HISTORY_CAP == 100      \* check_history[:100]
DELETE_AFTER == 60      \* utc(hours=-1), in minutes
RECHECK_AFTER == 5      \* utc_now_offset(minutes=-5)
SOURCE_RECHECK == 60    \* utc(hours=-1) in SourceService.check_next
live_last_ok_minutes == 15   \* settings.live_last_ok_minutes
WINDOW == 1             \* AsyncSlidingWindowCounter(window_seconds=60), in minutes

Instants == {0, 30, 59, 61}   \* the clock readings (minutes) the model follows
Hours == {0, 61}              \* the readings followed where only the hour matters
LiveInstants == {0, 14, 15, 16}   \* the readings around the liveness window

NoTime == 0 - 1         \* a datetime field holding None
NoIp == "None"          \* external_ip holding None

\* ---------------------------------------------------------------- strings
\* A string is a sequence of tokens; the tokens are the pieces the code
\* splits or tests: scheme prefixes, ":", "@", host names and port digits.
SchemePrefixes == {"http://", "https://", "socks5://"}

\* int(port_str): the decimal value, or raising ValueError (not in DOMAIN)
IntOf == [t \in {"80", "080", "1080"} |-> IF t = "1080" THEN 1080 ELSE 80]

\* str(port) inside the f-string
StrOf(n) == IF n = 1080 THEN "1080" ELSE "80"

IndexesOf(s, tok) == {i \in 1..Len(s) : s[i] = tok}

Max(S) == CHOOSE x \in S : \A y \in S : y <= x
Min(S) == CHOOSE x \in S : \A y \in S : x <= y

\* str.startswith(("http://", "https://", "socks5://"))
StartsWithScheme(s) == Len(s) > 0 /\ s[1] \in SchemePrefixes

\* urlparse(url).hostname: the netloc after the scheme, credentials dropped
\* through the last "@", the port dropped from the first ":" on; <<>> is None
Hostname(url) ==
    IF ~StartsWithScheme(url) THEN <<>>
    ELSE LET netloc == Tail(url)
             ats == IndexesOf(netloc, "@")
             hostport == IF ats = {} THEN netloc
                         ELSE SubSeq(netloc, Max(ats) + 1, Len(netloc))
             cols == IndexesOf(hostport, ":")
         IN IF cols = {} THEN hostport ELSE SubSeq(hostport, 1, Min(cols) - 1)

\* ------------------------------------------------------------ Source (db.py)
\* faulty variant: credentials are embedded as soon as a username is set
build_proxy_url_partial(src, entry) ==
    IF StartsWithScheme(entry) THEN [ok |-> TRUE, url |-> entry]
    ELSE LET schema == IF src.default_protocol = "socks5" THEN "socks5://"
                       ELSE "http://"
             cols == IndexesOf(entry, ":")
             host == IF cols # {} THEN SubSeq(entry, 1, Max(cols) - 1) ELSE entry
             port_str == IF cols # {} THEN SubSeq(entry, Max(cols) + 1, Len(entry))
                         ELSE <<>>
             port_ok == IF cols # {}
                        THEN Len(port_str) = 1 /\ port_str[1] \in DOMAIN IntOf
                        ELSE src.default_port # NoTime
             port == IF cols # {} THEN IntOf[port_str[1]] ELSE src.default_port
             creds == IF src.default_username # "None"
                      THEN <<src.default_username, ":", src.default_password, "@">>
                      ELSE <<>>
         IN IF ~port_ok THEN [ok |-> FALSE, url |-> <<>>]
            ELSE [ok |-> TRUE,
                  url |-> <<schema>> \o creds \o host \o <<":", StrOf(port)>>]

\* Source.build_proxy_url: [ok |-> TRUE, url |-> u], or ok FALSE for ValueError
build_proxy_url(src, entry) ==
    IF StartsWithScheme(entry) THEN [ok |-> TRUE, url |-> entry]
    ELSE LET protocol == IF src.default_protocol = "None" THEN "http"
                         ELSE src.default_protocol
             schema == IF protocol = "socks5" THEN "socks5://" ELSE "http://"
             cols == IndexesOf(entry, ":")
             host == IF cols # {} THEN SubSeq(entry, 1, Max(cols) - 1) ELSE entry
             port_str == IF cols # {} THEN SubSeq(entry, Max(cols) + 1, Len(entry))
                         ELSE <<>>
             port_ok == IF cols # {}
                        THEN Len(port_str) = 1 /\ port_str[1] \in DOMAIN IntOf
                        ELSE src.default_port # NoTime
             port == IF cols # {} THEN IntOf[port_str[1]] ELSE src.default_port
             creds == IF src.default_username # "None" /\ src.default_password # "None"
                      THEN <<src.default_username, ":", src.default_password, "@">>
                      ELSE <<>>
         IN IF ~port_ok THEN [ok |-> FALSE, url |-> <<>>]
            ELSE [ok |-> TRUE,
                  url |-> <<schema>> \o creds \o host \o <<":", StrOf(port)>>]

\* ------------------------------------------------------------- Proxy (db.py)
\* Proxy.new: the document of a new proxy, or ok FALSE for ValueError
ProxyNew(source, url, created) ==
    IF Hostname(url) = <<>> THEN [ok |-> FALSE]
    ELSE [ok |-> TRUE,
          doc |-> [source |-> source, url |-> url, external_ip |-> NoIp,
                   status |-> "UNKNOWN",
                   protocol |-> IF url[1] \in {"http://", "https://"}
                                THEN "http" ELSE "socks5",
                   created_at |-> created, checked_at |-> NoTime,
                   last_ok_at |-> NoTime, check_history |-> <<>>]]

\* faulty variant: only the never-OK branch of the rule
is_time_to_delete_never_ok(p, t) ==
    p.last_ok_at = NoTime /\ p.created_at < t - DELETE_AFTER

\* faulty variant: only the was-OK branch of the rule
is_time_to_delete_was_ok(p, t) ==
    p.last_ok_at # NoTime /\ p.last_ok_at < t - DELETE_AFTER

\* Proxy.is_time_to_delete evaluated when the clock reads t
is_time_to_delete(p, t) ==
    \/ p.last_ok_at # NoTime /\ p.last_ok_at < t - DELETE_AFTER
    \/ p.last_ok_at = NoTime /\ p.created_at < t - DELETE_AFTER

\* ------------------------------------------------------- store primitives
\* collection.delete(id) / delete_many(filter): the documents that remain
Without(db, ids) == [i \in DOMAIN db \ ids |-> db[i]]

Take(s, n) == SubSeq(s, 1, IF Len(s) < n THEN Len(s) ELSE n)

\* ------------------------------------- ProxyService.check, one step per await
\* The coroutine of one check(id): its position and its locals.
NewCheck(id) ==
    [pc |-> "get", id |-> id, check_history |-> <<>>, success |-> FALSE,
     external_ip |-> NoIp, checked_at |-> NoTime, last_ok_at |-> NoTime,
     deleted |-> FALSE]

\* proxy = await db.proxy.get(id): raises when the document is gone
CheckGet(t, db) ==
    IF t.id \in DOMAIN db
    THEN [t EXCEPT !.pc = "probe", !.check_history = db[t.id].check_history]
    ELSE [t EXCEPT !.pc = "raised"]

\* [success, *proxy.check_history][:100]
HistoryAfter(success, history) == Take(<<success>> \o history, HISTORY_CAP)

\* the probe returns ip (NoIp for a failure); `updated` is built with two
\* readings of the clock, t1 for checked_at and then t2 for last_ok_at
CheckProbed(t, ip, t1, t2) ==
    [t EXCEPT !.pc = "set", !.success = (ip # NoIp), !.external_ip = ip,
              !.checked_at = t1,
              !.last_ok_at = IF ip # NoIp THEN t2 ELSE NoTime,
              !.check_history = HistoryAfter(ip # NoIp, t.check_history)]

\* faulty variant: last_ok_at written on every check, None after a failure
UpdatedOverwrite(p, t) ==
    [p EXCEPT !.status = IF t.success THEN "OK" ELSE "DOWN",
              !.checked_at = t.checked_at,
              !.external_ip = t.external_ip,
              !.last_ok_at = t.last_ok_at,
              !.check_history = t.check_history]

\* faulty variant: an update that leaves external_ip as it was
UpdatedKeepIp(p, t) ==
    [p EXCEPT !.status = IF t.success THEN "OK" ELSE "DOWN",
              !.checked_at = t.checked_at,
              !.last_ok_at = IF t.success THEN t.last_ok_at ELSE p.last_ok_at,
              !.check_history = t.check_history]

\* the document after db.proxy.set_and_get(id, updated)
Updated(p, t) ==
    [p EXCEPT !.status = IF t.success THEN "OK" ELSE "DOWN",
              !.checked_at = t.checked_at,
              !.external_ip = t.external_ip,
              !.last_ok_at = IF t.success THEN t.last_ok_at ELSE p.last_ok_at,
              !.check_history = t.check_history]

\* faulty variant: is_time_to_delete evaluated on the document as it was
\* before the update
CheckSetTaskStale(t, db, t3) ==
    IF t.id \notin DOMAIN db THEN [t EXCEPT !.pc = "raised"]
    ELSE IF is_time_to_delete(db[t.id], t3)
         THEN [t EXCEPT !.pc = "delete"]
         ELSE [t EXCEPT !.pc = "done"]

\* set_and_get lands (raising when the document is gone), then
\* is_time_to_delete is evaluated on the returned document at clock reading t3
CheckSetTask(t, db, t3) ==
    IF t.id \notin DOMAIN db THEN [t EXCEPT !.pc = "raised"]
    ELSE IF is_time_to_delete(Updated(db[t.id], t), t3)
         THEN [t EXCEPT !.pc = "delete"]
         ELSE [t EXCEPT !.pc = "done"]

CheckSetDb(t, db) ==
    IF t.id \notin DOMAIN db THEN db
    ELSE [db EXCEPT ![t.id] = Updated(db[t.id], t)]

\* db.proxy.delete(id) lands; updated["deleted"] = True
CheckDeleteTask(t) == [t EXCEPT !.pc = "done", !.deleted = TRUE]

\* a coroutine that has returned or raised
Finished(t) == t.pc \in {"done", "raised", "cancelled"}

\* ------------------------------------------------------------------ state
\* ------------------------------------- AsyncSlidingWindowCounter (utils.py)
\* AsyncSlidingWindowCounter(window_seconds=60): an empty deque.  `recorded`
\* is a history of the counter: every reading of the clock record_operation
\* was called at; `count` and `at` are the last value get_count returned and
\* the reading of the clock it was called at
NewCounter ==
    [window |-> WINDOW, timestamps |-> <<>>, recorded |-> <<>>,
     count |-> NoTime, at |-> NoTime]

\* faulty variant: a timestamp as old as the window is dropped too
CleanupAtWindow(ts, current_time, window) ==
    SelectSeq(ts, LAMBDA x : x > current_time - window)

RECURSIVE Cleanup(_, _, _)
\* _cleanup: popleft while the head is older than the window
Cleanup(ts, current_time, window) ==
    IF ts # <<>> /\ ts[1] < current_time - window
        THEN Cleanup(Tail(ts), current_time, window)
        ELSE ts

\* record_operation at clock reading t: append, then _cleanup
record_operation(c, t) ==
    [c EXCEPT !.timestamps = Cleanup(Append(@, t), t, c.window),
              !.recorded = Append(@, t)]

\* get_count at clock reading t: _cleanup, then len(self.timestamps)
get_count(c, t) ==
    LET ts == Cleanup(c.timestamps, t, c.window)
    IN [c EXCEPT !.timestamps = ts, !.count = Len(ts), !.at = t]

VARIABLES
    now,        \* the wall clock, in minutes
    proxies,    \* the proxy collection: ObjectId -> Proxy document
    nextId,     \* ObjectIds handed out so far
    sources,    \* the source collection: id -> Source document
    settings,   \* core.settings
    lock,       \* async_mutex of check_next, per service
    left,       \* calls the environment may still make, per kind of call
    batch,      \* invocations of ProxyService.check_next and their TaskGroup
    api,        \* the coroutine of POST /api/proxies/{id}/check
    ingest,     \* coroutines of SourceService.check (scheduled or requested)
    deleting,   \* SourceService.delete coroutines between their two awaits
    counter     \* ProxyService.counter, with the history of its calls

vars == <<now, proxies, nextId, sources, settings, lock, left, batch, api,
          ingest, deleting, counter>>

Ops == {"proxy_check", "source_check"}
ExecIds == {1, 2}       \* invocations of ProxyService.check_next told apart
IngestSlots == {1, 2}   \* coroutines of SourceService.check told apart
Idle == [pc |-> "idle"]

\* what check_proxy_ip_via_public_services can return: no ip, or an ip
ProbeResults == {NoIp, "9.9.9.9"}

\* parse_proxy_list(res.body) of the remote lists a fetch can return
FetchBodies == { << <<"h3", ":", "1080">> >> }

\* ------------------------------------------------------------------ clock
\* the clock moves on to a later one of the readings S
Tick(S) ==
    /\ \E t \in S : t > now /\ now' = t
    /\ UNCHANGED <<proxies, nextId, sources, settings, lock, left, batch, api,
                   ingest, deleting, counter>>

\* --------------------------------------------------------- async_mutex
\* faulty variant: a decorator that never finds its lock taken
LockedNever(op) == FALSE

\* the decorator's test of its lock when the decorated coroutine is called
Locked(op) == lock[op]

\* a call that finds the lock taken runs nothing of the decorated coroutine
Skipped == [pc |-> "skipped"]

\* ------------------------------------------------ ProxyService.check_next
RECURSIVE SortedBy(_, _)
\* the ids of S as a list, ascending by key[i] and then by id
SortedBy(S, key) ==
    IF S = {} THEN <<>>
    ELSE LET m == CHOOSE i \in S :
                    \A j \in S : key[i] < key[j] \/ (key[i] = key[j] /\ i <= j)
         IN <<m>> \o SortedBy(S \ {m}, key)

\* db.proxy.find({"checked_at": None}, limit=limit): no order is asked for,
\* so any `limit` of the matching documents can come back
FindNeverChecked(db, limit) ==
    LET match == {i \in DOMAIN db : db[i].checked_at = NoTime}
        n == IF Cardinality(match) < limit THEN Cardinality(match) ELSE limit
    IN {SortedBy(S, [i \in S |-> 0]) : S \in {T \in SUBSET match : Cardinality(T) = n}}

\* faulty variant: a proxy checked exactly 5 minutes ago is matched as well
FindOldestCheckedAt5(db, t, k) ==
    LET match == {i \in DOMAIN db :
                    db[i].checked_at # NoTime /\ db[i].checked_at <= t - RECHECK_AFTER}
        n == IF Cardinality(match) < k THEN Cardinality(match) ELSE k
    IN {SortedBy(S, [i \in S |-> db[i].checked_at]) :
          S \in {T \in SUBSET match :
                   /\ Cardinality(T) = n
                   /\ \A i \in T, j \in match \ T : db[i].checked_at <= db[j].checked_at}}

\* db.proxy.find({"checked_at": {"$lt": now - 5 min}}, "checked_at", limit=k)
\* ($lt never matches a null field)
FindOldestChecked(db, t, k) ==
    LET match == {i \in DOMAIN db :
                    db[i].checked_at # NoTime /\ db[i].checked_at < t - RECHECK_AFTER}
        n == IF Cardinality(match) < k THEN Cardinality(match) ELSE k
    IN {SortedBy(S, [i \in S |-> db[i].checked_at]) :
          S \in {T \in SUBSET match :
                   /\ Cardinality(T) = n
                   /\ \A i \in T, j \in match \ T : db[i].checked_at <= db[j].checked_at}}

\* tg.create_task(self.check(proxy.id)) for every proxy of the list
CreateTasks(ids) == [i \in 1..Len(ids) |-> NewCheck(ids[i])]

\* the scheduler (or anything else) calls ProxyService.check_next
ProxyCheckNext(e) ==
    /\ batch[e].pc = "idle"
    /\ IF Locked("proxy_check")
       THEN /\ batch' = [batch EXCEPT ![e] = Skipped]
            /\ UNCHANGED <<now, proxies, nextId, sources, settings, lock, left,
                           api, ingest, deleting, counter>>
       ELSE IF ~settings.proxies_check
       THEN UNCHANGED vars
       ELSE /\ left.proxy_check > 0
            /\ left' = [left EXCEPT !.proxy_check = @ - 1]
            /\ lock' = [lock EXCEPT !["proxy_check"] = TRUE]
            /\ \E found \in FindNeverChecked(proxies, max_proxies_check) :
                 batch' = [batch EXCEPT ![e] =
                    IF Len(found) < max_proxies_check
                    THEN [pc |-> "find", proxies |-> found, tasks |-> <<>>]
                    ELSE [pc |-> "run", proxies |-> found,
                          tasks |-> CreateTasks(found)]]
            /\ UNCHANGED <<now, proxies, nextId, sources, settings, api, ingest,
                           deleting, counter>>

\* the second find returns, and the TaskGroup is entered
ProxyCheckNextFind(e) ==
    /\ batch[e].pc = "find"
    /\ \E found \in FindOldestChecked(proxies, now,
                        max_proxies_check - Len(batch[e].proxies)) :
         batch' = [batch EXCEPT ![e] =
            [pc |-> "run", proxies |-> batch[e].proxies \o found,
             tasks |-> CreateTasks(batch[e].proxies \o found)]]
    /\ UNCHANGED <<now, proxies, nextId, sources, settings, lock, left, api,
                   ingest, deleting, counter>>

\* asyncio.TaskGroup: a task that raises makes the group cancel every task
\* of the group that has not finished
TaskGroupSettle(tasks, i, t) ==
    [j \in 1..Len(tasks) |->
        IF j = i THEN t
        ELSE IF t.pc = "raised" /\ ~Finished(tasks[j])
             THEN [tasks[j] EXCEPT !.pc = "cancelled"]
             ELSE tasks[j]]

\* `async with asyncio.TaskGroup()` exits when every task has finished;
\* check_next returns (or raises the group's exception) and the mutex opens
ProxyCheckNextExit(e) ==
    /\ batch[e].pc = "run"
    /\ \A i \in 1..Len(batch[e].tasks) : Finished(batch[e].tasks[i])
    /\ batch' = [batch EXCEPT ![e] = Idle]
    /\ lock' = [lock EXCEPT !["proxy_check"] = FALSE]
    /\ UNCHANGED <<now, proxies, nextId, sources, settings, left, api, ingest,
                   deleting, counter>>

\* a skipped call returns to the scheduler
ProxyCheckNextSkipped(e) ==
    /\ batch[e].pc = "skipped"
    /\ batch' = [batch EXCEPT ![e] = Idle]
    /\ UNCHANGED <<now, proxies, nextId, sources, settings, lock, left, api,
                   ingest, deleting, counter>>

\* ----------------------------------------- where a check coroutine lives
\* <<"api", 0, 0>> is the request handler's; <<"batch", e, i>> is task i of
\* the TaskGroup of invocation e
Locs == {<<"api", 0, 0>>} \cup
        {<<"batch", e, i>> : e \in ExecIds, i \in 1..max_proxies_check}

Live(loc) ==
    IF loc[1] = "api" THEN api.pc # "idle"
    ELSE batch[loc[2]].pc = "run" /\ loc[3] <= Len(batch[loc[2]].tasks)

TaskAt(loc) == IF loc[1] = "api" THEN api ELSE batch[loc[2]].tasks[loc[3]]

Put(loc, t) ==
    IF loc[1] = "api"
    THEN api' = t /\ UNCHANGED batch
    ELSE /\ batch' = [batch EXCEPT ![loc[2]].tasks = TaskGroupSettle(@, loc[3], t)]
         /\ UNCHANGED api

\* POST /api/proxies/{id}/check -> ProxyService.check(id)
ApiCheck(id) ==
    /\ api.pc = "idle"
    /\ left.api_check > 0
    /\ id \in DOMAIN proxies
    /\ api' = NewCheck(id)
    /\ left' = [left EXCEPT !.api_check = @ - 1]
    /\ UNCHANGED <<now, proxies, nextId, sources, settings, lock, batch, ingest,
                   deleting, counter>>

\* the handler returns the result, or the exception becomes the response
ApiCheckReturn ==
    /\ Finished(api)
    /\ api' = Idle
    /\ UNCHANGED <<now, proxies, nextId, sources, settings, lock, left, batch,
                   ingest, deleting, counter>>

CheckGetStep(loc) ==
    /\ Live(loc) /\ TaskAt(loc).pc = "get"
    /\ Put(loc, CheckGet(TaskAt(loc), proxies))
    /\ UNCHANGED <<now, proxies, nextId, sources, settings, lock, left, ingest,
                   deleting, counter>>

\* the probe returns; between the two clock readings of `updated` the clock
\* may advance
CheckProbeStep(loc, S) ==
    /\ Live(loc) /\ TaskAt(loc).pc = "probe"
    /\ \E ip \in ProbeResults, t2 \in S \cup {now} :
         /\ t2 >= now
         /\ ip = NoIp => t2 = now
         /\ now' = t2
         /\ Put(loc, CheckProbed(TaskAt(loc), ip, now, t2))
    /\ counter' = record_operation(counter, now)
    /\ UNCHANGED <<proxies, nextId, sources, settings, lock, left, ingest,
                   deleting>>

CheckSetStep(loc) ==
    /\ Live(loc) /\ TaskAt(loc).pc = "set"
    /\ proxies' = CheckSetDb(TaskAt(loc), proxies)
    /\ Put(loc, CheckSetTask(TaskAt(loc), proxies, now))
    /\ UNCHANGED <<now, nextId, sources, settings, lock, left, ingest, deleting, counter>>

CheckDeleteStep(loc) ==
    /\ Live(loc) /\ TaskAt(loc).pc = "delete"
    /\ proxies' = Without(proxies, {TaskAt(loc).id})
    /\ Put(loc, CheckDeleteTask(TaskAt(loc)))
    /\ UNCHANGED <<now, nextId, sources, settings, lock, left, ingest, deleting, counter>>

\* ------------------------------------------ calls of ProxyService.counter
\* record_operation is called (as ProxyService.check does after its probe)
CounterRecord ==
    /\ Len(counter.recorded) < MaxRecords
    /\ counter' = record_operation(counter, now)
    /\ UNCHANGED <<now, proxies, nextId, sources, settings, lock, left, batch,
                   api, ingest, deleting>>

\* get_count is called (as GET /bot does)
CounterGetCount ==
    /\ counter' = get_count(counter, now)
    /\ UNCHANGED <<now, proxies, nextId, sources, settings, lock, left, batch,
                   api, ingest, deleting>>

\* ----------------------------------------- ProxyService.get_live_proxies
\* the tokens in the order of their strings (byte order, as the store sorts)
TokenOrder ==
    <<"080", "1080", "80", ":", "@", "h1", "h2", "h3", "http://", "https://",
      "p", "socks5://", "u">>

TokenRank(tok) == CHOOSE i \in 1..Len(TokenOrder) : TokenOrder[i] = tok

RECURSIVE UrlLess(_, _)
\* u sorts before v
UrlLess(u, v) ==
    IF v = <<>> THEN FALSE
    ELSE IF u = <<>> THEN TRUE
    ELSE IF Head(u) = Head(v) THEN UrlLess(Tail(u), Tail(v))
    ELSE TokenRank(Head(u)) < TokenRank(Head(v))

\* faulty variant: the window closed with $gte
LiveMatchGte(db, t, srcs, protocol) ==
    {i \in DOMAIN db :
        /\ db[i].status = "OK"
        /\ db[i].last_ok_at # NoTime
        /\ db[i].last_ok_at >= t - live_last_ok_minutes
        /\ srcs # {} => db[i].source \in srcs
        /\ protocol # "None" => db[i].protocol = protocol}

\* the documents the query matches ($gt never matches a null field;
\* `if sources:` and `if protocol:` add their conditions only when set)
LiveMatch(db, t, srcs, protocol) ==
    {i \in DOMAIN db :
        /\ db[i].status = "OK"
        /\ db[i].last_ok_at # NoTime
        /\ db[i].last_ok_at > t - live_last_ok_minutes
        /\ srcs # {} => db[i].source \in srcs
        /\ protocol # "None" => db[i].protocol = protocol}

\* db.proxy.find(query, "url"): the matching documents in the order of url
LiveFind(db, t, srcs, protocol) ==
    LET S == LiveMatch(db, t, srcs, protocol)
        ids == SortedBy(S, [i \in S |->
                   Cardinality({j \in S : UrlLess(db[j].url, db[i].url)})])
    IN [k \in 1..Len(ids) |-> db[ids[k]]]

\* Proxy.gateway: "None" when the ip is unknown, else whether the ip
\* differs from the hostname of the url
Gateway(p) ==
    IF p.external_ip = NoIp THEN "None"
    ELSE IF <<p.external_ip>> # Hostname(p.url) THEN "True" ELSE "False"

\* faulty variant: the gateways are the ones kept
ExcludeGatewayInverted(ps) == SelectSeq(ps, LAMBDA p : Gateway(p) = "True")

\* [p for p in proxies if p.gateway is False]
ExcludeGateway(ps) == SelectSeq(ps, LAMBDA p : Gateway(p) = "False")

RECURSIVE UniqBy(_, _)
\* pydash.uniq_by(ps, external_ip): the first document of every ip
UniqBy(ps, seen) ==
    IF ps = <<>> THEN <<>>
    ELSE IF Head(ps).external_ip \in seen THEN UniqBy(Tail(ps), seen)
    ELSE <<Head(ps)>> \o UniqBy(Tail(ps), seen \cup {Head(ps).external_ip})

\* faulty variant: uniqueness by url, which no two documents share
UniqueIpByUrl(ps) == ps

\* unique_with_ip + without_ip
UniqueIp(ps) ==
    UniqBy(SelectSeq(ps, LAMBDA p : p.external_ip # NoIp), {})
        \o SelectSeq(ps, LAMBDA p : p.external_ip = NoIp)

\* what get_live_proxies makes of the documents the find returned
LiveFilter(ps, unique_ip, exclude_gateway) ==
    LET kept == IF exclude_gateway THEN ExcludeGateway(ps) ELSE ps
    IN IF unique_ip THEN UniqueIp(kept) ELSE kept

\* GET /api/proxies/live: the query is built with the clock read now
ApiLive(srcs, protocol, unique_ip, exclude_gateway) ==
    /\ api.pc = "idle"
    /\ api' = [pc |-> "live", t |-> now, sources |-> srcs, protocol |-> protocol,
               unique_ip |-> unique_ip, exclude_gateway |-> exclude_gateway,
               result |-> <<>>]
    /\ UNCHANGED <<now, proxies, nextId, sources, settings, lock, left, batch,
                   ingest, deleting, counter>>

\* the find lands, the filters run and the list is returned
ApiLiveFind ==
    /\ api.pc = "live"
    /\ api' = [api EXCEPT !.pc = "done",
                          !.result = LiveFilter(
                              LiveFind(proxies, api.t, api.sources, api.protocol),
                              api.unique_ip, api.exclude_gateway)]
    /\ UNCHANGED <<now, proxies, nextId, sources, settings, lock, left, batch,
                   ingest, deleting, counter>>

\* ---------------------------------------------------- SourceService.check
NewIngest(owner, id) ==
    [pc |-> "get", owner |-> owner, id |-> id, source |-> <<>>, urls |-> <<>>,
     event |-> <<>>, created |-> 0, ret |-> 0]

\* [source.build_proxy_url(entry) for entry in entries]
BuildAll(src, entries) == [i \in 1..Len(entries) |-> build_proxy_url(src, entries[i])]
AllOk(rs) == \A i \in 1..Len(rs) : rs[i].ok
Urls(rs) == [i \in 1..Len(rs) |-> rs[i].url]

\* faulty variant: a collection without the unique index stores every document
InsertManyAll(db, source, urls, n, t) ==
    [i \in DOMAIN db \cup (n + 1 .. n + Len(urls)) |->
        IF i > n THEN ProxyNew(source, urls[i - n], t).doc ELSE db[i]]

RECURSIVE InsertMany(_, _, _, _, _)
\* db.proxy.insert_many(proxies, ordered=False) under the unique index on
\* url: every document is tried, one whose url is taken is rejected, the
\* others are stored; the BulkWriteError is suppressed
InsertMany(db, source, urls, n, t) ==
    IF urls = <<>> THEN db
    ELSE LET taken == {db[i].url : i \in DOMAIN db}
             db1 == IF Head(urls) \in taken THEN db
                    ELSE [i \in DOMAIN db \cup {n + 1} |->
                            IF i = n + 1 THEN ProxyNew(source, Head(urls), t).doc
                            ELSE db[i]]
             n1 == IF Head(urls) \in taken THEN n ELSE n + 1
         IN InsertMany(db1, source, Tail(urls), n1, t)

\* source = await db.source.get(id), then the urls of the static entries
IngestGet(k) ==
    /\ ingest[k].pc = "get"
    /\ LET r == ingest[k]
           rs == BuildAll(sources[r.id], sources[r.id].entries)
       IN ingest' = [ingest EXCEPT ![k] =
            IF r.id \notin DOMAIN sources THEN [r EXCEPT !.pc = "raised"]
            ELSE IF ~AllOk(rs) THEN [r EXCEPT !.pc = "raised"]
            ELSE [r EXCEPT !.source = sources[r.id], !.urls = Urls(rs),
                           !.pc = IF sources[r.id].entries_url # "None"
                                  THEN "fetch" ELSE "insert"]]
    /\ UNCHANGED <<now, proxies, nextId, sources, settings, lock, left, batch,
                   api, deleting, counter>>

\* res.error_message of a fetch that failed
FetchErrors == {"timeout"}

\* core.event("source_check_failed", {"source_id": id, "error": ...})
FailedEvent(id, err) ==
    [name |-> "source_check_failed", source_id |-> id, error |-> err]

\* faulty variant: a fetch that failed ends the run with its error
IngestFetchRaising(k) ==
    /\ ingest[k].pc = "fetch"
    /\ \E ok \in BOOLEAN, body \in FetchBodies :
         LET r == ingest[k]
             rs == BuildAll(r.source, body)
         IN ingest' = [ingest EXCEPT ![k] =
              IF ~ok \/ ~AllOk(rs) THEN [r EXCEPT !.pc = "raised"]
              ELSE [r EXCEPT !.urls = r.urls \o Urls(rs), !.pc = "insert"]]
    /\ UNCHANGED <<now, proxies, nextId, sources, settings, lock, left, batch,
                   api, deleting, counter>>

\* http_request(source.entries_url) returns: a list, or a failure that is
\* reported with core.event("source_check_failed", ...)
IngestFetch(k) ==
    /\ ingest[k].pc = "fetch"
    /\ \E ok \in BOOLEAN, body \in FetchBodies, err \in FetchErrors :
         LET r == ingest[k]
             rs == BuildAll(r.source, body)
         IN ingest' = [ingest EXCEPT ![k] =
              IF ~ok THEN [r EXCEPT !.event = Append(@, FailedEvent(r.id, err)),
                                    !.pc = "insert"]
              ELSE IF ~AllOk(rs) THEN [r EXCEPT !.pc = "raised"]
              ELSE [r EXCEPT !.urls = r.urls \o Urls(rs), !.pc = "insert"]]
    /\ UNCHANGED <<now, proxies, nextId, sources, settings, lock, left, batch,
                   api, deleting, counter>>

\* proxies = [Proxy.new(id, url) for url in urls]; insert_many lands
IngestInsert(k) ==
    /\ ingest[k].pc = "insert"
    /\ LET r == ingest[k]
           valid == \A i \in 1..Len(r.urls) : ProxyNew(r.id, r.urls[i], now).ok
           db1 == InsertMany(proxies, r.id, r.urls, nextId, now)
           made == Cardinality(DOMAIN db1) - Cardinality(DOMAIN proxies)
       IN IF ~valid
          THEN /\ ingest' = [ingest EXCEPT ![k].pc = "raised"]
               /\ UNCHANGED <<proxies, nextId>>
          ELSE /\ nextId + made <= MaxProxies
               /\ proxies' = db1
               /\ nextId' = nextId + made
               /\ ingest' = [ingest EXCEPT ![k].pc = "set", ![k].created = made]
    /\ UNCHANGED <<now, sources, settings, lock, left, batch, api, deleting, counter>>

\* the value SourceService.check returns
IngestResult(r) == Len(r.urls)

\* db.source.set(id, {"checked_at": utc()}) lands; return len(proxies)
IngestSet(k) ==
    /\ ingest[k].pc = "set"
    /\ sources' = IF ingest[k].id \in DOMAIN sources
                  THEN [sources EXCEPT ![ingest[k].id].checked_at = now]
                  ELSE sources
    /\ ingest' = [ingest EXCEPT ![k].pc = "done", ![k].ret = IngestResult(ingest[k])]
    /\ UNCHANGED <<now, proxies, nextId, settings, lock, left, batch, api,
                   deleting, counter>>

\* the coroutine is over: the response goes out, or check_next returns and
\* its mutex opens
IngestReturn(k) ==
    /\ ingest[k].pc \in {"done", "raised", "skipped"}
    /\ ingest' = [ingest EXCEPT ![k] = Idle]
    /\ lock' = IF ingest[k].pc # "skipped" /\ ingest[k].owner = "sched"
               THEN [lock EXCEPT !["source_check"] = FALSE] ELSE lock
    /\ UNCHANGED <<now, proxies, nextId, sources, settings, left, batch, api,
                   deleting, counter>>

\* POST /api/sources/{id}/check -> SourceService.check(id)
ApiIngest(k, id) ==
    /\ ingest[k].pc = "idle"
    /\ \A j \in IngestSlots : j < k => ingest[j].pc # "idle"
    /\ left.api_ingest > 0
    /\ id \in DOMAIN sources
    /\ ingest' = [ingest EXCEPT ![k] = NewIngest("api", id)]
    /\ left' = [left EXCEPT !.api_ingest = @ - 1]
    /\ UNCHANGED <<now, proxies, nextId, sources, settings, lock, batch, api,
                   deleting, counter>>

\* ----------------------------------------------- SourceService.check_next
\* faulty variant: the due source checked last comes first
DueSourcesNewest(db, t) ==
    LET due == {s \in DOMAIN db :
                  db[s].checked_at = NoTime \/ db[s].checked_at < t - SOURCE_RECHECK}
    IN {s \in due : \A o \in due : db[s].checked_at >= db[o].checked_at}

\* find_one({"$or": [checked_at None, checked_at < now - 1h]}, "checked_at"):
\* the due sources with the least checked_at (None sorts first)
DueSources(db, t) ==
    LET due == {s \in DOMAIN db :
                  db[s].checked_at = NoTime \/ db[s].checked_at < t - SOURCE_RECHECK}
    IN {s \in due : \A o \in due : db[s].checked_at <= db[o].checked_at}

SourceCheckNext(k) ==
    /\ ingest[k].pc = "idle"
    /\ \A j \in IngestSlots : j < k => ingest[j].pc # "idle"
    /\ IF Locked("source_check")
       THEN /\ ingest' = [ingest EXCEPT ![k] = Skipped]
            /\ UNCHANGED <<now, proxies, nextId, sources, settings, lock, left,
                           batch, api, deleting, counter>>
       ELSE IF DueSources(sources, now) = {} THEN UNCHANGED vars
       ELSE /\ left.source_check > 0
            /\ left' = [left EXCEPT !.source_check = @ - 1]
            /\ lock' = [lock EXCEPT !["source_check"] = TRUE]
            /\ \E s \in DueSources(sources, now) :
                 ingest' = [ingest EXCEPT ![k] = NewIngest("sched", s)]
            /\ UNCHANGED <<now, proxies, nextId, sources, settings, batch, api,
                           deleting, counter>>

\* -------------------------------------------------- SourceService.delete
\* db.proxy.delete_many({"source": id}) lands
SourceDelete(id) ==
    /\ id \in DOMAIN sources /\ id \notin deleting
    /\ left.source_delete > 0
    /\ left' = [left EXCEPT !.source_delete = @ - 1]
    /\ proxies' = Without(proxies, {i \in DOMAIN proxies : proxies[i].source = id})
    /\ deleting' = deleting \cup {id}
    /\ UNCHANGED <<now, nextId, sources, settings, lock, batch, api, ingest,
                   counter>>

\* db.source.delete(id) lands
SourceDeleteFinish(id) ==
    /\ id \in deleting
    /\ sources' = Without(sources, {id})
    /\ deleting' = deleting \ {id}
    /\ UNCHANGED <<now, proxies, nextId, settings, lock, left, batch, api, ingest,
                   counter>>

\* ------------------------------------------------------------ configurations
\* Source documents as an operator configures them (db.py fields).
SourceDoc(protocol, username, password, port, url, entries) ==
    [default_protocol |-> protocol, default_username |-> username,
     default_password |-> password, default_port |-> port,
     entries_url |-> url, entries |-> entries, checked_at |-> NoTime]

\* s1: partial entries completed with default_port; two of them resolve to
\* the same url.  s2: a full url that s1 also yields, and a remote list.
S1 == SourceDoc("None", "None", "None", 80, "None",
                << <<"h1", ":", "080">>, <<"http://", "h1", ":", "80">>, <<"h2">> >>)
S2 == SourceDoc("socks5", "u", "None", NoTime, "list",
                << <<"http://", "h1", ":", "80">> >>)
\* a source with a single entry
S0 == SourceDoc("None", "None", "None", NoTime, "None", << <<"h1", ":", "80">> >>)
\* a source with an entry that has no port, and no default_port
S4 == SourceDoc("None", "None", "None", NoTime, "None",
                << <<"h1", ":", "1080">>, <<"h2">> >>)
\* a source of three hosts and the port by default
S5 == SourceDoc("None", "None", "None", 80, "None",
                << <<"h1">>, <<"h2">>, <<"h3">> >>)
\* a source of one socks5 proxy with credentials and the port by default
S3 == SourceDoc("socks5", "u", "p", 1080, "None", << <<"h2">> >>)

Budget(pc, sc, ac, ai, sd) ==
    [proxy_check |-> pc, source_check |-> sc, api_check |-> ac, api_ingest |-> ai,
     source_delete |-> sd]

\* the state of a deployment at minute t with the given stores
StartAt(t, db, srcs, enabled, budget) ==
    /\ now = t
    /\ proxies = db
    /\ nextId = Cardinality(DOMAIN db)
    /\ sources = srcs
    /\ settings \in [proxies_check : enabled]
    /\ lock = [o \in Ops |-> FALSE]
    /\ left = budget
    /\ batch = [e \in ExecIds |-> Idle]
    /\ api = Idle
    /\ ingest = [k \in IngestSlots |-> Idle]
    /\ deleting = {}
    /\ counter = NewCounter

\* the state of a deployment at minute 0 with the given stores
Start(db, srcs, enabled, budget) == StartAt(0, db, srcs, enabled, budget)

\* the store after SourceService.check(id) at minute t
Ingested(db, srcs, id, t) ==
    InsertMany(db, id, Urls(BuildAll(srcs[id], srcs[id].entries)),
               Cardinality(DOMAIN db), t)

Checked(srcs, id, t) == [srcs EXCEPT ![id].checked_at = t]

\* ------------------------------------------------------------ specifications
\* The whole system from an empty proxy store.
Init == Start(<<>>, [s \in {"s1", "s2"} |-> IF s = "s1" THEN S1 ELSE S2],
              BOOLEAN, Budget(MaxRuns, MaxRuns, MaxCalls, MaxCalls, MaxCalls))

Next ==
    \/ Tick(Instants)
    \/ \E e \in ExecIds : ProxyCheckNext(e)
    \/ \E e \in ExecIds : ProxyCheckNextFind(e)
    \/ \E e \in ExecIds : ProxyCheckNextExit(e)
    \/ \E e \in ExecIds : ProxyCheckNextSkipped(e)
    \/ \E id \in DOMAIN proxies : ApiCheck(id)
    \/ ApiCheckReturn
    \/ \E loc \in Locs : CheckGetStep(loc)
    \/ \E loc \in Locs : CheckProbeStep(loc, Instants)
    \/ \E loc \in Locs : CheckSetStep(loc)
    \/ \E loc \in Locs : CheckDeleteStep(loc)
    \/ \E k \in IngestSlots : SourceCheckNext(k)
    \/ \E k \in IngestSlots, id \in DOMAIN sources : ApiIngest(k, id)
    \/ \E k \in IngestSlots : IngestGet(k)
    \/ \E k \in IngestSlots : IngestFetch(k)
    \/ \E k \in IngestSlots : IngestInsert(k)
    \/ \E k \in IngestSlots : IngestSet(k)
    \/ \E k \in IngestSlots : IngestReturn(k)
    \/ \E id \in DOMAIN sources : SourceDelete(id)
    \/ \E id \in DOMAIN sources : SourceDeleteFinish(id)

Spec == Init /\ [][Next]_vars

\* a history that has reached its cap: the last check was OK, the oldest DOWN
FullHistory == [i \in 1..HISTORY_CAP |-> i < HISTORY_CAP]

\* Checks of one proxy: the scheduled batch and an on-demand check, over the
\* proxy's whole life (fresh, or found OK at minute 0 by the last of many
\* checks).
InitCheck ==
    \E db \in {Ingested(<<>>, [s \in {"s1"} |-> S0], "s1", 0)} :
    \E p \in {db[1],
              [db[1] EXCEPT !.status = "OK", !.checked_at = 0, !.last_ok_at = 0,
                            !.external_ip = "9.9.9.9",
                            !.check_history = FullHistory]} :
        Start([db EXCEPT ![1] = p], Checked([s \in {"s1"} |-> S0], "s1", 0),
              BOOLEAN, Budget(MaxRuns, 0, MaxCalls, 0, 0))

NextCheck(S) ==
    \/ Tick(S)
    \/ \E e \in ExecIds : ProxyCheckNext(e)
    \/ \E e \in ExecIds : ProxyCheckNextFind(e)
    \/ \E e \in ExecIds : ProxyCheckNextExit(e)
    \/ \E e \in ExecIds : ProxyCheckNextSkipped(e)
    \/ \E id \in DOMAIN proxies : ApiCheck(id)
    \/ ApiCheckReturn
    \/ \E loc \in Locs : CheckGetStep(loc)
    \/ \E loc \in Locs : CheckProbeStep(loc, S)
    \/ \E loc \in Locs : CheckSetStep(loc)
    \/ \E loc \in Locs : CheckDeleteStep(loc)

SpecCheck == InitCheck /\ [][NextCheck(Instants)]_vars

\* One batch over two proxies of two sources (the first found OK at minute 0,
\* the second never checked), with the deletion of a source arriving while
\* it runs.
BatchSources == [s \in {"s1", "s2"} |-> IF s = "s1" THEN S0 ELSE S3]

InitBatch ==
    \E db \in {Ingested(Ingested(<<>>, BatchSources, "s1", 0), BatchSources, "s2", 0)} :
        Start([db EXCEPT ![1] = [@ EXCEPT !.status = "OK", !.checked_at = 0,
                                          !.last_ok_at = 0,
                                          !.external_ip = "9.9.9.9",
                                          !.check_history = <<TRUE>>]],
              Checked(Checked(BatchSources, "s1", 0), "s2", 0),
              {TRUE}, Budget(MaxRuns, 0, 0, 0, MaxCalls))

NextBatch ==
    \/ Tick(Hours)
    \/ \E e \in ExecIds : ProxyCheckNext(e)
    \/ \E e \in ExecIds : ProxyCheckNextFind(e)
    \/ \E e \in ExecIds : ProxyCheckNextExit(e)
    \/ \E e \in ExecIds : ProxyCheckNextSkipped(e)
    \/ \E loc \in Locs : CheckGetStep(loc)
    \/ \E loc \in Locs : CheckProbeStep(loc, Hours)
    \/ \E loc \in Locs : CheckSetStep(loc)
    \/ \E loc \in Locs : CheckDeleteStep(loc)
    \/ \E id \in DOMAIN sources : SourceDelete(id)
    \/ \E id \in DOMAIN sources : SourceDeleteFinish(id)

SpecBatch == InitBatch /\ [][NextBatch]_vars

\* Ingestion: scheduled and on-demand runs over two sources, and deletions.
InitIngest ==
    Start(<<>>, [s \in {"s1", "s2"} |-> IF s = "s1" THEN S1 ELSE S2],
          {TRUE}, Budget(0, MaxRuns, 0, MaxCalls, MaxCalls))

NextIngest ==
    \/ Tick(Hours)
    \/ \E k \in IngestSlots : SourceCheckNext(k)
    \/ \E k \in IngestSlots, id \in DOMAIN sources : ApiIngest(k, id)
    \/ \E k \in IngestSlots : IngestGet(k)
    \/ \E k \in IngestSlots : IngestFetch(k)
    \/ \E k \in IngestSlots : IngestInsert(k)
    \/ \E k \in IngestSlots : IngestSet(k)
    \/ \E k \in IngestSlots : IngestReturn(k)
    \/ \E id \in DOMAIN sources : SourceDelete(id)
    \/ \E id \in DOMAIN sources : SourceDeleteFinish(id)

SpecIngest == InitIngest /\ [][NextIngest]_vars

\* The scheduler alone: both check_next jobs firing again and again over one
\* source and an empty proxy store.
InitSched ==
    Start(<<>>, [s \in {"s2"} |-> S2], BOOLEAN,
          Budget(MaxFires, MaxFires, 0, 0, 0))

NextSched ==
    \/ Tick(Hours)
    \/ \E e \in ExecIds : ProxyCheckNext(e)
    \/ \E e \in ExecIds : ProxyCheckNextFind(e)
    \/ \E e \in ExecIds : ProxyCheckNextExit(e)
    \/ \E e \in ExecIds : ProxyCheckNextSkipped(e)
    \/ \E loc \in Locs : CheckGetStep(loc)
    \/ \E loc \in Locs : CheckProbeStep(loc, Hours)
    \/ \E loc \in Locs : CheckSetStep(loc)
    \/ \E loc \in Locs : CheckDeleteStep(loc)
    \/ \E k \in IngestSlots : SourceCheckNext(k)
    \/ \E k \in IngestSlots : IngestGet(k)
    \/ \E k \in IngestSlots : IngestFetch(k)
    \/ \E k \in IngestSlots : IngestInsert(k)
    \/ \E k \in IngestSlots : IngestSet(k)
    \/ \E k \in IngestSlots : IngestReturn(k)

SpecSched == InitSched /\ [][NextSched]_vars

\* Ingestion of a source that has an entry without port next to a sound
\* source: scheduled and on-demand runs.
InitFaulty ==
    Start(<<>>, [s \in {"s1", "s2"} |-> IF s = "s1" THEN S4 ELSE S0],
          {TRUE}, Budget(0, MaxFires, 0, MaxFires, 0))

NextFaulty ==
    \/ Tick(Hours)
    \/ \E k \in IngestSlots : SourceCheckNext(k)
    \/ \E k \in IngestSlots, id \in DOMAIN sources : ApiIngest(k, id)
    \/ \E k \in IngestSlots : IngestGet(k)
    \/ \E k \in IngestSlots : IngestInsert(k)
    \/ \E k \in IngestSlots : IngestSet(k)
    \/ \E k \in IngestSlots : IngestReturn(k)

SpecFaulty == InitFaulty /\ [][NextFaulty]_vars

\* Queries for live proxies over stores of three proxies in every state a
\* check can leave them in.
LiveUrls ==
    <<<<"http://", "h2", ":", "80">>, <<"http://", "h1", ":", "80">>,
      <<"socks5://", "h3", ":", "1080">>>>

\* the documents a proxy of the given source and url can be: never checked,
\* DOWN (never OK, or OK at minute 0), or OK (at minute 0 or 1, seen with
\* its own address or with a gateway's)
LiveDocs(source, url) ==
    LET new == ProxyNew(source, url, 0).doc
        host == Hostname(url)[1]
    IN {new}
       \cup {[new EXCEPT !.status = "DOWN", !.checked_at = 1, !.last_ok_at = l,
                         !.check_history = IF l = NoTime THEN <<FALSE>>
                                           ELSE <<FALSE, TRUE>>] :
                l \in {NoTime, 0}}
       \cup {[new EXCEPT !.status = "OK", !.checked_at = l, !.last_ok_at = l,
                         !.external_ip = ip, !.check_history = <<TRUE>>] :
                l \in {0, 1}, ip \in {host, "9.9.9.9"}}

InitLive ==
    \E d1 \in LiveDocs("s1", LiveUrls[1]), d2 \in LiveDocs("s1", LiveUrls[2]),
       d3 \in LiveDocs("s2", LiveUrls[3]) :
        Start(<<d1, d2, d3>>,
              Checked(Checked([s \in {"s1", "s2"} |-> IF s = "s1" THEN S1 ELSE S2],
                              "s1", 0), "s2", 0),
              {TRUE}, Budget(0, 0, 0, 0, 0))

NextLive ==
    \/ Tick(LiveInstants)
    \/ \E srcs \in SUBSET {"s1", "s2"}, protocol \in {"None", "http", "socks5"},
          unique_ip \in BOOLEAN, exclude_gateway \in BOOLEAN :
            ApiLive(srcs, protocol, unique_ip, exclude_gateway)
    \/ ApiLiveFind
    \/ ApiCheckReturn

SpecLive == InitLive /\ [][NextLive]_vars

\* The counter alone: record_operation and get_count called in any order as
\* the clock moves through readings one window and more apart.
CounterInstants == {0, 1, 2, 3}

InitCounter == Start(<<>>, <<>>, {FALSE}, Budget(0, 0, 0, 0, 0))

NextCounter ==
    \/ Tick(CounterInstants)
    \/ CounterRecord
    \/ CounterGetCount

SpecCounter == InitCounter /\ [][NextCounter]_vars

\* One entry of a source under every setting of the source's defaults, run
\* through an ingest on demand.
ParseEntries ==
    { <<"http://", "h1", ":", "80">>, <<"https://", "h1", ":", "080">>,
      <<"socks5://", "u", ":", "p", "@", "h1", ":", "1080">>,
      <<"h1", ":", "1080">>, <<"h1", ":", "080">>, <<"u", ":", "h1", ":", "80">>,
      <<"h1", ":", "p">>, <<"h2">> }

InitParse ==
    \E protocol \in {"None", "http", "socks5"}, username \in {"None", "u"},
       password \in {"None", "p"}, port \in {NoTime, 1080},
       entry \in ParseEntries :
         Start(<<>>,
               [s \in {"s1"} |->
                  SourceDoc(protocol, username, password, port, "None", <<entry>>)],
               {FALSE}, Budget(0, 0, 0, MaxCalls, 0))

NextParse ==
    \/ \E k \in IngestSlots, id \in DOMAIN sources : ApiIngest(k, id)
    \/ \E k \in IngestSlots : IngestGet(k)
    \/ \E k \in IngestSlots : IngestInsert(k)
    \/ \E k \in IngestSlots : IngestSet(k)
    \/ \E k \in IngestSlots : IngestReturn(k)

SpecParse == InitParse /\ [][NextParse]_vars

\* Batches over a store of three proxies at minute 7, each never checked or
\* found DOWN at a minute on either side of the 5 minutes of the second find.
SelectInstants == {7, 8}
SelectCheckedAt == {NoTime, 0, 1, 2, 6}

InitSelect ==
    \E db \in {Ingested(<<>>, [s \in {"s1"} |-> S5], "s1", 0)} :
    \E checked \in [DOMAIN db -> SelectCheckedAt] :
        StartAt(7,
                [i \in DOMAIN db |->
                   IF checked[i] # NoTime
                   THEN [db[i] EXCEPT !.status = "DOWN", !.checked_at = checked[i],
                                      !.check_history = <<FALSE>>]
                   ELSE db[i]],
                Checked([s \in {"s1"} |-> S5], "s1", 0),
                {TRUE}, Budget(MaxRuns, 0, 0, 0, 0))

NextSelect ==
    \/ Tick(SelectInstants)
    \/ \E e \in ExecIds : ProxyCheckNext(e)
    \/ \E e \in ExecIds : ProxyCheckNextFind(e)
    \/ \E e \in ExecIds : ProxyCheckNextExit(e)
    \/ \E e \in ExecIds : ProxyCheckNextSkipped(e)
    \/ \E loc \in Locs : CheckGetStep(loc)
    \/ \E loc \in Locs : CheckProbeStep(loc, SelectInstants)
    \/ \E loc \in Locs : CheckSetStep(loc)

SpecSelect == InitSelect /\ [][NextSelect]_vars

\* The source_check job over three sources at minute 62, each never checked
\* or checked at a minute on either side of the hour of check_next.
DueInstants == {62, 63}
DueCheckedAt == {NoTime, 0, 1, 2, 61}
DueDocs == [s \in {"s1", "s2", "s3"} |-> IF s = "s2" THEN S3 ELSE S0]

InitDue ==
    \E checked \in [DOMAIN DueDocs -> DueCheckedAt] :
        StartAt(62, <<>>,
                [s \in DOMAIN DueDocs |->
                   [DueDocs[s] EXCEPT !.checked_at = checked[s]]],
                {FALSE}, Budget(0, MaxFires, 0, 0, 0))

NextDue ==
    \/ Tick(DueInstants)
    \/ \E k \in IngestSlots : SourceCheckNext(k)
    \/ \E k \in IngestSlots : IngestGet(k)
    \/ \E k \in IngestSlots : IngestInsert(k)
    \/ \E k \in IngestSlots : IngestSet(k)
    \/ \E k \in IngestSlots : IngestReturn(k)

SpecDue == InitDue /\ [][NextDue]_vars

\* Ingestion and checks together: the two jobs of the scheduler and an
\* on-demand check over one source, whose first proxy is in the store and
\* whose second is still to be ingested; all of it within one minute.
InitMixed ==
    Start(Ingested(<<>>, [s \in {"s1"} |-> S0], "s1", 0), [s \in {"s1"} |-> S1],
          {TRUE}, Budget(MaxRuns, MaxRuns, MaxCalls, 0, 0))

NextMixed ==
    \/ \E e \in ExecIds : ProxyCheckNext(e)
    \/ \E e \in ExecIds : ProxyCheckNextFind(e)
    \/ \E e \in ExecIds : ProxyCheckNextExit(e)
    \/ \E e \in ExecIds : ProxyCheckNextSkipped(e)
    \/ \E id \in DOMAIN proxies : ApiCheck(id)
    \/ ApiCheckReturn
    \/ \E loc \in Locs : CheckGetStep(loc)
    \/ \E loc \in Locs : CheckProbeStep(loc, {now})
    \/ \E loc \in Locs : CheckSetStep(loc)
    \/ \E k \in IngestSlots : SourceCheckNext(k)
    \/ \E k \in IngestSlots : IngestGet(k)
    \/ \E k \in IngestSlots : IngestInsert(k)
    \/ \E k \in IngestSlots : IngestSet(k)
    \/ \E k \in IngestSlots : IngestReturn(k)

SpecMixed == InitMixed /\ [][NextMixed]_vars

\* The source_check job firing forever over three sources at minute 62: s1
\* has an entry without port and no default_port, s2 and s3 are sound.  The
\* scheduler's timer renews the firings the job has left, every await
\* returns, and the job is started again and again.
Renew(budget) ==
    /\ left # budget
    /\ left' = budget
    /\ UNCHANGED <<now, proxies, nextId, sources, settings, lock, batch, api,
                   ingest, deleting, counter>>

StarveDocs == [s \in {"s1", "s2", "s3"} |->
                 IF s = "s1" THEN S4 ELSE IF s = "s2" THEN S0 ELSE S3]

InitStarve ==
    \E checked \in [DOMAIN StarveDocs -> DueCheckedAt] :
        StartAt(62, <<>>,
                [s \in DOMAIN StarveDocs |->
                   [StarveDocs[s] EXCEPT !.checked_at = checked[s]]],
                {FALSE}, Budget(0, MaxFires, 0, 0, 0))

NextStarve ==
    \/ Renew(Budget(0, MaxFires, 0, 0, 0))
    \/ \E k \in IngestSlots : SourceCheckNext(k)
    \/ \E k \in IngestSlots : IngestGet(k)
    \/ \E k \in IngestSlots : IngestInsert(k)
    \/ \E k \in IngestSlots : IngestSet(k)
    \/ \E k \in IngestSlots : IngestReturn(k)

SpecStarve ==
    /\ InitStarve /\ [][NextStarve]_vars
    /\ WF_vars(Renew(Budget(0, MaxFires, 0, 0, 0)))
    /\ WF_vars(\E k \in IngestSlots : SourceCheckNext(k))
    /\ \A k \in IngestSlots :
         /\ WF_vars(IngestGet(k))
         /\ WF_vars(IngestInsert(k))
         /\ WF_vars(IngestSet(k))
         /\ WF_vars(IngestReturn(k))

\* The proxy_check job firing forever over a store of three proxies that
\* receives no new ones, as the clock moves past the hour: the scheduler's
\* timer renews the firings the job has left, every await returns, the job
\* is started again and again, and time passes.
InitDead ==
    Start(Ingested(<<>>, [s \in {"s1"} |-> S5], "s1", 0),
          Checked([s \in {"s1"} |-> S5], "s1", 0),
          {TRUE}, Budget(MaxRuns, 0, 0, 0, 0))

NextDead ==
    \/ Tick(Hours)
    \/ Renew(Budget(MaxRuns, 0, 0, 0, 0))
    \/ \E e \in ExecIds : ProxyCheckNext(e)
    \/ \E e \in ExecIds : ProxyCheckNextFind(e)
    \/ \E e \in ExecIds : ProxyCheckNextExit(e)
    \/ \E e \in ExecIds : ProxyCheckNextSkipped(e)
    \/ \E loc \in Locs : CheckGetStep(loc)
    \/ \E loc \in Locs : CheckProbeStep(loc, Hours)
    \/ \E loc \in Locs : CheckSetStep(loc)
    \/ \E loc \in Locs : CheckDeleteStep(loc)

SpecDead ==
    /\ InitDead /\ [][NextDead]_vars
    /\ WF_vars(Tick(Hours))
    /\ WF_vars(Renew(Budget(MaxRuns, 0, 0, 0, 0)))
    /\ WF_vars(\E e \in ExecIds : ProxyCheckNext(e))
    /\ \A e \in ExecIds :
         /\ WF_vars(ProxyCheckNextFind(e))
         /\ WF_vars(ProxyCheckNextExit(e))
         /\ WF_vars(ProxyCheckNextSkipped(e))
    /\ \A loc \in Locs :
         /\ WF_vars(CheckGetStep(loc))
         /\ WF_vars(CheckProbeStep(loc, Hours))
         /\ WF_vars(CheckSetStep(loc))
         /\ WF_vars(CheckDeleteStep(loc))

\* ----------------------------------------------------------------- claims
\* C1: each of the two check_next operations has at most one execution in
\* progress; a call that arrives while one is in progress is skipped: it
\* changes nothing but its own return to the caller (no task is created, no
\* store is written, the lock is not touched), and then it returns.
C1_OneExecution ==
    /\ [](/\ Cardinality({e \in ExecIds : batch[e].pc \in {"find", "run"}}) <= 1
          /\ Cardinality({k \in IngestSlots :
                            /\ ingest[k].pc \notin {"idle", "skipped"}
                            /\ ingest[k].owner = "sched"}) <= 1)
    /\ [][\A e \in ExecIds :
            /\ (/\ batch[e].pc = "idle" /\ batch'[e].pc # "idle"
                /\ \E f \in ExecIds : batch[f].pc \in {"find", "run"})
               => /\ batch'[e] = Skipped
                  /\ \A f \in ExecIds \ {e} : batch'[f] = batch[f]
                  /\ UNCHANGED <<now, proxies, nextId, sources, settings, lock,
                                 left, api, ingest, deleting, counter>>
            /\ batch[e].pc = "skipped"
               => /\ batch'[e].pc \in {"skipped", "idle"}
                  /\ batch'[e].pc = "idle" =>
                       UNCHANGED <<now, proxies, nextId, sources, settings, lock,
                                   left, api, ingest, deleting, counter>>]_vars
    /\ [][\A k \in IngestSlots :
            /\ (/\ ingest[k].pc = "idle" /\ ingest'[k].pc # "idle"
                /\ \E j \in IngestSlots :
                     /\ ingest[j].pc \notin {"idle", "skipped"}
                     /\ ingest[j].owner = "sched")
               => /\ ingest'[k] = Skipped
                  /\ \A j \in IngestSlots \ {k} : ingest'[j] = ingest[j]
                  /\ UNCHANGED <<now, proxies, nextId, sources, settings, lock,
                                 left, api, batch, deleting, counter>>
            /\ ingest[k].pc = "skipped"
               => /\ ingest'[k].pc \in {"skipped", "idle"}
                  /\ ingest'[k].pc = "idle" =>
                       UNCHANGED <<now, proxies, nextId, sources, settings, lock,
                                   left, api, batch, deleting, counter>>]_vars

\* a call of each check_next has been skipped while the execution it found
\* in progress is in the middle of its work
C1_SkippedWhileRunning ==
    /\ \E e, f \in ExecIds :
         /\ batch[e].pc = "run"
         /\ \E i \in 1..Len(batch[e].tasks) : batch[e].tasks[i].pc = "probe"
         /\ batch[f] = Skipped
    /\ \E j, k \in IngestSlots :
         /\ ingest[j].pc = "set" /\ ingest[j].owner = "sched"
         /\ ingest[k] = Skipped

\* C2: every check_history holds at most 100 entries, and the update of a
\* check leaves the check's outcome at index 0 followed by the entries the
\* record held, in their order, cut to 100 entries (the oldest dropped).
C2_HistoryPrepend ==
    [][\A loc \in Locs :
         (/\ Live(loc) /\ TaskAt(loc).pc = "set"
          /\ TaskAt(loc).id \in DOMAIN proxies
          /\ TaskAt(loc)'.pc \in {"done", "delete"})
         => LET id == TaskAt(loc).id
            IN /\ Len(proxies'[id].check_history) <= HISTORY_CAP
               /\ proxies'[id].check_history =
                    Take(<<TaskAt(loc).success>> \o proxies[id].check_history,
                         HISTORY_CAP)]_vars

\* C3: a proxy with status OK has a last_ok_at, and it is not later than
\* the record's checked_at.
C3_OkStamped ==
    \A i \in DOMAIN proxies :
        proxies[i].status = "OK" =>
            /\ proxies[i].last_ok_at # NoTime
            /\ proxies[i].last_ok_at <= proxies[i].checked_at

\* C4: last_ok_at of a proxy never decreases: a step that leaves the proxy
\* OK stores a last_ok_at not earlier than the one stored before.
C4_LastOkMonotone ==
    [][\A i \in DOMAIN proxies \cap DOMAIN proxies' :
         (proxies'[i].status = "OK" /\ proxies[i].last_ok_at # NoTime)
         => proxies'[i].last_ok_at >= proxies[i].last_ok_at]_vars

\* C5 as stated: a check that stores its update when the record's last_ok_at
\* is 61 minutes old goes on to delete the proxy; at 59 minutes it does not.
C5_DeletedAt61 ==
    [][\A loc \in Locs :
         (/\ Live(loc) /\ TaskAt(loc).pc = "set"
          /\ TaskAt(loc).id \in DOMAIN proxies
          /\ proxies[TaskAt(loc).id].last_ok_at # NoTime
          /\ TaskAt(loc)'.pc \in {"done", "delete"})
         => LET age == now - proxies[TaskAt(loc).id].last_ok_at
            IN /\ age = 61 => TaskAt(loc)'.pc = "delete"
               /\ age = 59 => TaskAt(loc)'.pc = "done"]_vars

\* C5 amended: when a check whose probe failed stores its update, it goes on
\* to delete the proxy if the record's last_ok_at is 61 minutes old, and
\* keeps it if it is 59 minutes old; a check whose probe succeeded stores its
\* own clock reading as last_ok_at and keeps a proxy whose last_ok_at was 61
\* minutes old whenever that reading is at most 60 minutes old; the delete
\* step removes the record.
C5_FailedCheckDeletesAt61 ==
    [][\A loc \in Locs :
         /\ (/\ Live(loc) /\ TaskAt(loc).pc = "set"
             /\ TaskAt(loc).id \in DOMAIN proxies
             /\ proxies[TaskAt(loc).id].last_ok_at # NoTime
             /\ TaskAt(loc)'.pc \in {"done", "delete"})
            => LET t == TaskAt(loc)
                   age == now - proxies[t.id].last_ok_at
               IN /\ (~t.success /\ age = 61) => TaskAt(loc)'.pc = "delete"
                  /\ (~t.success /\ age = 59) =>
                        TaskAt(loc)'.pc = "done" /\ t.id \in DOMAIN proxies'
                  /\ (t.success /\ age = 61 /\ now - t.last_ok_at <= DELETE_AFTER) =>
                        /\ TaskAt(loc)'.pc = "done"
                        /\ proxies'[t.id].last_ok_at = t.last_ok_at
         /\ (/\ Live(loc) /\ TaskAt(loc).pc = "delete"
             /\ TaskAt(loc)'.pc = "done")
            => TaskAt(loc).id \notin DOMAIN proxies']_vars

\* a failed check has stored its update on a proxy last OK 61 minutes ago
\* and is about to delete it
C5_FailedAt61 ==
    \E loc \in Locs :
        /\ Live(loc) /\ TaskAt(loc).pc = "delete" /\ ~TaskAt(loc).success
        /\ TaskAt(loc).id \in DOMAIN proxies
        /\ proxies[TaskAt(loc).id].last_ok_at = now - 61

\* C6 as stated: a check that stores its update on a never-OK proxy created
\* 61 minutes ago goes on to delete it, whatever the probe returned; one
\* created 30 minutes ago is kept.
C6_NeverOkDeletedAt61 ==
    [][\A loc \in Locs :
         (/\ Live(loc) /\ TaskAt(loc).pc = "set"
          /\ TaskAt(loc).id \in DOMAIN proxies
          /\ proxies[TaskAt(loc).id].last_ok_at = NoTime
          /\ TaskAt(loc)'.pc \in {"done", "delete"})
         => LET age == now - proxies[TaskAt(loc).id].created_at
            IN /\ age = 61 => TaskAt(loc)'.pc = "delete"
               /\ age = 30 => TaskAt(loc)'.pc = "done"]_vars

\* C6 amended: when a check whose probe failed stores its update on a
\* never-OK proxy created 61 minutes ago it goes on to delete it; a check
\* whose probe succeeded makes the proxy OK and keeps it whenever its clock
\* reading is at most 60 minutes old; a never-OK proxy created 30 minutes
\* ago is kept whatever the probe returned.
C6_FailedCheckDeletesNeverOk ==
    [][\A loc \in Locs :
         (/\ Live(loc) /\ TaskAt(loc).pc = "set"
          /\ TaskAt(loc).id \in DOMAIN proxies
          /\ proxies[TaskAt(loc).id].last_ok_at = NoTime
          /\ TaskAt(loc)'.pc \in {"done", "delete"})
         => LET t == TaskAt(loc)
                age == now - proxies[t.id].created_at
            IN /\ (~t.success /\ age = 61) => TaskAt(loc)'.pc = "delete"
               /\ (t.success /\ age = 61 /\ now - t.last_ok_at <= DELETE_AFTER) =>
                     /\ TaskAt(loc)'.pc = "done"
                     /\ proxies'[t.id].status = "OK"
                     /\ proxies'[t.id].last_ok_at = t.last_ok_at
               /\ age = 30 =>
                     TaskAt(loc)'.pc = "done" /\ t.id \in DOMAIN proxies']_vars

\* a failed check has stored its update on a never-OK proxy created 61
\* minutes ago and is about to delete it
C6_NeverOkFailedAt61 ==
    \E loc \in Locs :
        /\ Live(loc) /\ TaskAt(loc).pc = "delete" /\ ~TaskAt(loc).success
        /\ TaskAt(loc).id \in DOMAIN proxies
        /\ proxies[TaskAt(loc).id].last_ok_at = NoTime
        /\ proxies[TaskAt(loc).id].created_at = now - 61

\* C7: every step of a check leaves every other Proxy record as it is and
\* url, source, protocol and created_at of its own record as they are; only
\* the set and delete steps write at all; checked_at is the clock read when
\* the probe returned; the update of a failed probe stores status DOWN, that
\* checked_at and no external_ip, and leaves last_ok_at as stored.
C7_CheckFrame ==
    [][\A loc \in Locs :
         (/\ Live(loc) /\ TaskAt(loc).pc \in {"get", "probe", "set", "delete"}
          /\ TaskAt(loc)'.pc \notin {TaskAt(loc).pc, "cancelled"})
         => LET t == TaskAt(loc)
                id == t.id
            IN /\ DOMAIN proxies' \subseteq DOMAIN proxies
               /\ \A j \in DOMAIN proxies \ {id} :
                     j \in DOMAIN proxies' /\ proxies'[j] = proxies[j]
               /\ (id \in DOMAIN proxies /\ id \in DOMAIN proxies') =>
                     /\ proxies'[id].url = proxies[id].url
                     /\ proxies'[id].source = proxies[id].source
                     /\ proxies'[id].protocol = proxies[id].protocol
                     /\ proxies'[id].created_at = proxies[id].created_at
               /\ t.pc \in {"get", "probe"} => proxies' = proxies
               /\ t.pc = "probe" => TaskAt(loc)'.checked_at = now
               /\ (t.pc = "set" /\ ~t.success /\ id \in DOMAIN proxies) =>
                     /\ proxies'[id].status = "DOWN"
                     /\ proxies'[id].checked_at = t.checked_at
                     /\ proxies'[id].external_ip = NoIp
                     /\ proxies'[id].last_ok_at = proxies[id].last_ok_at]_vars

\* a failed check has stored its update on a proxy that had been OK, and the
\* other proxy is in the store
C7_FailedOnceOk ==
    \E loc \in Locs :
        /\ Live(loc) /\ TaskAt(loc).pc \in {"done", "delete"}
        /\ ~TaskAt(loc).success
        /\ TaskAt(loc).id \in DOMAIN proxies
        /\ proxies[TaskAt(loc).id].status = "DOWN"
        /\ proxies[TaskAt(loc).id].last_ok_at # NoTime
        /\ proxies[TaskAt(loc).id].checked_at = TaskAt(loc).checked_at
        /\ DOMAIN proxies # {TaskAt(loc).id}

\* C8: no check of a batch is cancelled because a sibling's check raised:
\* in particular a selected proxy that is still in the store is never left
\* with its check cancelled.
C8_SiblingsNotCancelled ==
    \A e \in ExecIds :
        batch[e].pc = "run" =>
            \A i \in 1..Len(batch[e].tasks) :
                batch[e].tasks[i].pc = "cancelled" =>
                    batch[e].tasks[i].id \notin DOMAIN proxies

\* C9: no two Proxy records have the same url, and an insert whose documents
\* are all valid never raises, whatever urls the store holds already.
C9_UniqueUrl ==
    /\ [](\A i, j \in DOMAIN proxies :
            i # j => proxies[i].url # proxies[j].url)
    /\ [][\A k \in IngestSlots :
            ingest[k].pc = "insert" => ingest'[k].pc \in {"insert", "set"}]_vars

\* an insert has landed with some of its urls rejected as duplicates, and a
\* second ingest is in flight
C9_DuplicateRejected ==
    \E k, j \in IngestSlots :
        /\ k # j
        /\ ingest[k].pc = "set" /\ ingest[k].created < Len(ingest[k].urls)
        /\ ingest[j].pc \in {"insert", "set"}
        /\ DOMAIN proxies # {}

\* C10: the value an ingest returns is the number of Proxy records its
\* insert created.
C10_ReturnsCreated ==
    \A k \in IngestSlots :
        ingest[k].pc = "done" => ingest[k].ret = ingest[k].created


\* C11: an ingest of a source one of whose entries has no port (and the
\* source no default_port) completes, and the proxy of its resolvable entry
\* is in the store afterwards.
C11_OtherEntriesIngested ==
    \A k \in IngestSlots :
        (ingest[k].pc \in {"done", "raised"} /\ ingest[k].id = "s1") =>
            /\ ingest[k].pc = "done"
            /\ \E i \in DOMAIN proxies :
                 proxies[i].url = <<"http://", "h1", ":", "1080">>

\* C12: a fetch never ends the run: when it fails the run emits one event
\* that carries the source's id and the error and goes on with the urls of
\* the static entries alone; the insert then leaves every one of those urls
\* in the store, the last step sets the source's checked_at to now (when the
\* source is still there), and the run returns instead of raising.
C12_FetchFailureGoesOn ==
    [][\A k \in IngestSlots :
         /\ (ingest[k].pc = "fetch" /\ ingest'[k].pc # "fetch")
            => /\ ingest'[k].pc = "insert"
               /\ \/ /\ ingest'[k].event = ingest[k].event
                     /\ Len(ingest'[k].urls) > Len(ingest[k].urls)
                  \/ /\ ingest'[k].urls = ingest[k].urls
                     /\ \E err \in FetchErrors :
                          ingest'[k].event = <<FailedEvent(ingest[k].id, err)>>
         /\ (ingest[k].pc # "idle" /\ ingest[k].pc # "skipped"
             /\ ingest[k].event # <<>>)
            => /\ ingest[k].urls =
                    Urls(BuildAll(ingest[k].source, ingest[k].source.entries))
               /\ ingest[k].pc = "insert"
                  => /\ ingest'[k].pc \in {"insert", "set"}
                     /\ ingest'[k].pc = "set" =>
                          \A i \in 1..Len(ingest[k].urls) :
                              \E j \in DOMAIN proxies' :
                                  proxies'[j].url = ingest[k].urls[i]
               /\ ingest[k].pc = "set"
                  => /\ ingest'[k].pc \in {"set", "done"}
                     /\ (ingest'[k].pc = "done" /\ ingest[k].id \in DOMAIN sources)
                        => sources'[ingest[k].id].checked_at = now
               /\ ingest[k].pc # "raised"]_vars

\* a run whose fetch failed has finished: one event, the url of the static
\* entry stored, checked_at set
C12_FinishedAfterFailure ==
    \E k \in IngestSlots :
        /\ ingest[k].pc = "done" /\ Len(ingest[k].event) = 1
        /\ ingest[k].event[1].source_id = ingest[k].id
        /\ ingest[k].id \in DOMAIN sources
        /\ sources[ingest[k].id].checked_at = now
        /\ \E j \in DOMAIN proxies : proxies[j].url = ingest[k].urls[1]

\* C13: no proxy outlives its source: every Proxy record belongs to a
\* source that is in the store (a source leaves the store only as the last
\* step of its deletion).
C13_NoOrphans ==
    \A i \in DOMAIN proxies : proxies[i].source \in DOMAIN sources

\* C14: every proxy a live query returns is a record of the store with
\* status OK and last_ok_at later than the query's clock reading minus
\* live_last_ok_minutes, of one of the sources asked for (when sources are
\* given) and of the protocol asked for (when one is given); without
\* unique_ip and exclude_gateway every such record of the store is returned.
C14_LiveSelection ==
    (api.pc = "done" /\ "result" \in DOMAIN api) =>
        LET meets(p) ==
                /\ p.status = "OK"
                /\ p.last_ok_at # NoTime
                /\ p.last_ok_at > api.t - live_last_ok_minutes
                /\ api.sources # {} => p.source \in api.sources
                /\ api.protocol # "None" => p.protocol = api.protocol
        IN /\ \A k \in 1..Len(api.result) :
                /\ meets(api.result[k])
                /\ \E i \in DOMAIN proxies : proxies[i] = api.result[k]
           /\ (~api.unique_ip /\ ~api.exclude_gateway) =>
                \A i \in DOMAIN proxies :
                    meets(proxies[i]) =>
                        \E k \in 1..Len(api.result) : api.result[k] = proxies[i]

\* a query by source and protocol has returned a proxy and left out an OK
\* proxy of that source and protocol whose last_ok_at is at the window's edge
C14_EdgeLeftOut ==
    /\ api.pc = "done" /\ "result" \in DOMAIN api
    /\ api.sources = {"s1"} /\ api.protocol = "http"
    /\ Len(api.result) = 1
    /\ \E i \in DOMAIN proxies :
         /\ proxies[i].status = "OK" /\ proxies[i].source = "s1"
         /\ proxies[i].last_ok_at = api.t - live_last_ok_minutes

\* C15: a query with unique_ip returns no two proxies with the same known
\* external_ip: of the proxies found (after the gateway filter), in their
\* order, exactly the first of every ip is returned, in that order, and all
\* those without ip are returned after them.  A query finds OK proxies only,
\* and those have an ip; on a list [A(ip=x), B(ip=x), C(no ip)] handed to
\* the filter directly the result is [A, C].
C15_UniqueIp ==
    /\ LET A == [ProxyNew("s1", LiveUrls[2], 0).doc EXCEPT !.external_ip = "9.9.9.9"]
           B == [ProxyNew("s1", LiveUrls[1], 0).doc EXCEPT !.external_ip = "9.9.9.9"]
           C == ProxyNew("s2", LiveUrls[3], 0).doc
       IN LiveFilter(<<A, B, C>>, TRUE, FALSE) = <<A, C>>
    /\ (api.pc = "done" /\ "result" \in DOMAIN api /\ api.unique_ip) =>
        LET found == LiveFind(proxies, api.t, api.sources, api.protocol)
            ps == IF api.exclude_gateway
                  THEN SelectSeq(found, LAMBDA p : Gateway(p) = "False")
                  ELSE found
            first == {i \in 1..Len(ps) :
                        /\ ps[i].external_ip # NoIp
                        /\ \A j \in 1..(i - 1) :
                             ps[j].external_ip # ps[i].external_ip}
            noip == {i \in 1..Len(ps) : ps[i].external_ip = NoIp}
            r == api.result
        IN /\ \A a, b \in 1..Len(r) :
                (a # b /\ r[a].external_ip # NoIp) =>
                    r[a].external_ip # r[b].external_ip
           /\ Len(r) = Cardinality(first) + Cardinality(noip)
           /\ \A i \in first :
                r[Cardinality({j \in first : j <= i})] = ps[i]
           /\ \A i \in noip :
                r[Cardinality(first) + Cardinality({j \in noip : j <= i})] = ps[i]

\* a query with unique_ip found the two proxies of s1 with one and the same
\* ip and returned the one whose url sorts first
C15_SecondDropped ==
    /\ api.pc = "done" /\ "result" \in DOMAIN api /\ api.unique_ip
    /\ 1 \in LiveMatch(proxies, api.t, api.sources, api.protocol)
    /\ 2 \in LiveMatch(proxies, api.t, api.sources, api.protocol)
    /\ proxies[1].external_ip = proxies[2].external_ip
    /\ Len(api.result) >= 1
    /\ api.result[1] = proxies[2]
    /\ \A k \in 1..Len(api.result) : api.result[k] # proxies[1]

\* C16: a query with exclude_gateway returns only proxies whose external_ip
\* is known and is the hostname of their url, and (without unique_ip) it
\* returns every such proxy the query matches.
C16_ExcludeGateway ==
    (api.pc = "done" /\ "result" \in DOMAIN api /\ api.exclude_gateway) =>
        /\ \A k \in 1..Len(api.result) :
              /\ api.result[k].external_ip # NoIp
              /\ <<api.result[k].external_ip>> = Hostname(api.result[k].url)
        /\ ~api.unique_ip =>
              \A i \in LiveMatch(proxies, api.t, api.sources, api.protocol) :
                  <<proxies[i].external_ip>> = Hostname(proxies[i].url) =>
                      \E k \in 1..Len(api.result) : api.result[k] = proxies[i]

\* a query with exclude_gateway matched a direct proxy and a gateway and
\* returned the direct one alone
C16_GatewayDropped ==
    /\ api.pc = "done" /\ "result" \in DOMAIN api /\ api.exclude_gateway
    /\ Len(api.result) = 1
    /\ \E i \in LiveMatch(proxies, api.t, api.sources, api.protocol) :
         proxies[i].external_ip = "9.9.9.9"

\* C17: get_count returns exactly the number of record_operation calls made
\* so far whose timestamp is at most one window old at the reading of the
\* clock get_count is called at, after any sequence of calls at non-decreasing
\* readings; after 5 calls of record_operation and the clock moving on by
\* more than the window it returns 0.
C17_CountExact ==
    [][(counter' # counter /\ counter'.recorded = counter.recorded)
       => /\ counter'.at = now
          /\ counter'.count =
               Cardinality({i \in DOMAIN counter.recorded :
                              now - counter.recorded[i] <= counter.window})
          /\ (/\ Len(counter.recorded) = 5
              /\ \A i \in DOMAIN counter.recorded :
                   now - counter.recorded[i] > counter.window)
             => counter'.count = 0]_vars

\* get_count has returned 0 after 5 recorded operations, the last of them
\* more than a window ago
C17_FiveThenZero ==
    /\ Len(counter.recorded) = 5
    /\ counter.at # NoTime
    /\ counter.at - counter.recorded[5] > counter.window
    /\ counter.count = 0

\* C18: build_proxy_url returns an entry that starts with http://, https://
\* or socks5:// unchanged; of any other entry that has a port, or whose
\* source has a default_port, it builds scheme://[user:pass@]host:port: the
\* scheme is default_protocol (http when unset), host and port are the parts
\* before and after the last colon (the port as the integer it reads as), or
\* the whole entry and default_port, and the credentials are there if and
\* only if default_username and default_password are both set.
C18_BuildProxyUrl ==
    [][\A k \in IngestSlots :
         (ingest[k].pc = "get" /\ ingest'[k].pc # "get") =>
           LET src == sources[ingest[k].id]
               entry == src.entries[1]
               r == ingest'[k]
               scheme == IF src.default_protocol = "None" THEN "http://"
                         ELSE IF src.default_protocol = "http" THEN "http://"
                         ELSE "socks5://"
               both == src.default_username # "None" /\ src.default_password # "None"
               built(host, port) ==
                   /\ r.urls[1][1] = scheme
                   /\ SubSeq(r.urls[1], Len(r.urls[1]) - Len(host) - 1,
                             Len(r.urls[1])) = host \o <<":", port>>
                   /\ IF both
                      THEN r.urls[1] = <<scheme, src.default_username, ":",
                                         src.default_password, "@">>
                                       \o host \o <<":", port>>
                      ELSE r.urls[1] = <<scheme>> \o host \o <<":", port>>
           IN IF entry[1] \in {"http://", "https://", "socks5://"}
              THEN r.pc = "insert" /\ r.urls = <<entry>>
              ELSE IF \E i \in 1..Len(entry) : entry[i] = ":"
              THEN \E i \in 1..Len(entry) :
                     /\ entry[i] = ":"
                     /\ \A j \in i + 1 .. Len(entry) : entry[j] # ":"
                     /\ (i + 1 = Len(entry) /\ entry[i + 1] \in DOMAIN IntOf)
                        => /\ r.pc = "insert" /\ Len(r.urls) = 1
                           /\ built(SubSeq(entry, 1, i - 1),
                                    StrOf(IntOf[entry[i + 1]]))
              ELSE src.default_port # NoTime
                   => /\ r.pc = "insert" /\ Len(r.urls) = 1
                      /\ built(entry, StrOf(src.default_port))]_vars

\* a url has been built from a host-only entry of a source whose defaults
\* give the protocol, the port and a username without a password
C18_BuiltWithoutCredentials ==
    \E k \in IngestSlots :
      /\ ingest[k].pc = "insert"
      /\ sources["s1"].entries = << <<"h2">> >>
      /\ sources["s1"].default_username = "u"
      /\ sources["s1"].default_password = "None"
      /\ ingest[k].urls = << <<"socks5://", "h2", ":", "1080">> >>

\* C19: the list of one check_next has at most max_proxies_check proxies.
\* The first find takes never-checked proxies, as many as there are up to
\* max_proxies_check; only when these are fewer the second find adds proxies
\* whose checked_at is more than 5 minutes old, the oldest first and in
\* ascending order of checked_at, up to the rest of the quota.  A proxy
\* checked within the last 5 minutes is in neither, no proxy is taken twice,
\* and the TaskGroup gets exactly one new check per proxy of the list.
C19_CandidateSet ==
    [][\A e \in ExecIds :
         LET old == batch[e]
             new == batch'[e]
             limit == max_proxies_check
             never == {i \in DOMAIN proxies : proxies[i].checked_at = NoTime}
             stale == {i \in DOMAIN proxies :
                         /\ proxies[i].checked_at # NoTime
                         /\ now - proxies[i].checked_at > 5}
             least(a, b) == IF a < b THEN a ELSE b
         IN /\ (old.pc = "idle" /\ new.pc \in {"find", "run"})
               => /\ Len(new.proxies) = least(limit, Cardinality(never))
                  /\ \A i \in 1..Len(new.proxies) : new.proxies[i] \in never
                  /\ new.pc = "find" <=> Len(new.proxies) < limit
            /\ (old.pc = "find" /\ new.pc = "run")
               => LET n == Len(old.proxies)
                      added == SubSeq(new.proxies, n + 1, Len(new.proxies))
                      at(i) == proxies[added[i]].checked_at
                  IN /\ SubSeq(new.proxies, 1, n) = old.proxies
                     /\ Len(added) = least(limit - n, Cardinality(stale))
                     /\ \A i \in 1..Len(added) : added[i] \in stale
                     /\ \A i, j \in 1..Len(added) : i < j => at(i) <= at(j)
                     /\ \A i \in 1..Len(added) :
                          \A o \in stale \ {added[j] : j \in 1..Len(added)} :
                             at(i) <= proxies[o].checked_at
            /\ (old.pc # "run" /\ new.pc = "run")
               => /\ Len(new.proxies) <= limit
                  /\ \A i, j \in 1..Len(new.proxies) :
                       i # j => new.proxies[i] # new.proxies[j]
                  /\ Len(new.tasks) = Len(new.proxies)
                  /\ \A i \in 1..Len(new.tasks) :
                       /\ new.tasks[i].id = new.proxies[i]
                       /\ new.tasks[i].pc = "get"]_vars

\* a batch runs on a never-checked proxy and the oldest of two proxies
\* checked more than 5 minutes ago, with a proxy checked exactly 5 minutes
\* ago or later left out
C19_QuotaFilledByOldest ==
    \E e \in ExecIds :
      /\ batch[e].pc = "run" /\ Len(batch[e].proxies) = 2
      /\ \A i \in 1..2 : batch[e].tasks[i].pc = "get"
      /\ now = 7
      /\ \E a, b, c \in DOMAIN proxies :
           /\ batch[e].proxies = <<a, b>>
           /\ proxies[a].checked_at = NoTime
           /\ proxies[b].checked_at = 0
           /\ proxies[c].checked_at \in {1, 2, 6}

\* C20: one call of SourceService.check_next starts the ingest of at most
\* one source, a due one (checked_at null, or more than an hour old) with
\* no due source ranking before it, null ranking before every timestamp; only
\* the source being ingested gets a new checked_at; and when no source is due
\* no ingest starts and nothing changes (neither the lock, nor the budget,
\* nor a store).
C20_OldestDueSource ==
    [][LET isDue(s) == \/ sources[s].checked_at = NoTime
                       \/ now - sources[s].checked_at > 60
           before(s, o) == /\ sources[s].checked_at # sources[o].checked_at
                           /\ \/ sources[s].checked_at = NoTime
                              \/ /\ sources[o].checked_at # NoTime
                                 /\ sources[s].checked_at < sources[o].checked_at
           started == {k \in IngestSlots :
                         /\ ingest[k].pc = "idle"
                         /\ ingest'[k].pc \notin {"idle", "skipped"}}
       IN /\ Cardinality(started) <= 1
          /\ \A k \in started :
               /\ ingest'[k] = NewIngest("sched", ingest'[k].id)
               /\ ingest'[k].id \in DOMAIN sources
               /\ isDue(ingest'[k].id)
               /\ \A o \in DOMAIN sources :
                    isDue(o) => ~before(o, ingest'[k].id)
          /\ \A s \in DOMAIN sources :
               sources'[s] # sources[s]
               => \E k \in IngestSlots : ingest[k].pc = "set" /\ ingest[k].id = s
          /\ (\A s \in DOMAIN sources : ~isDue(s))
             => /\ started = {}
                /\ UNCHANGED <<proxies, nextId, sources, lock, left>>
                   \/ \E k \in IngestSlots : ingest[k].pc \notin {"idle", "skipped"}]_vars

\* the job has started the ingest of the source checked at minute 0, with a
\* source checked at minute 1 due as well and a source checked exactly an
\* hour ago not due
C20_OldestStarted ==
    \E k \in IngestSlots :
      /\ ingest[k].pc = "get" /\ ingest[k].owner = "sched"
      /\ now = 62
      /\ sources[ingest[k].id].checked_at = 0
      /\ \E o, p \in DOMAIN sources :
           sources[o].checked_at = 1 /\ sources[p].checked_at = 2

\* C21: every completed check of a proxy that still exists adds one entry
\* to its check_history: once a check of the batch and an on-demand check of
\* the same proxy have both completed, the history holds at least the two
\* outcomes (or is at its cap of 100 entries).
C21_NoOutcomeLost ==
    \A e \in ExecIds :
      batch[e].pc = "run" =>
        \A i \in 1..Len(batch[e].tasks) :
          (/\ batch[e].tasks[i].pc = "done"
           /\ api.pc = "done" /\ "id" \in DOMAIN api
           /\ api.id = batch[e].tasks[i].id
           /\ api.id \in DOMAIN proxies)
          => \/ Len(proxies[api.id].check_history) >= 2
             \/ Len(proxies[api.id].check_history) = HISTORY_CAP

\* C22: a check whose probe succeeded does not delete the proxy: when its
\* update lands with the last_ok_at it read from the clock at most an hour
\* old, the check returns without the delete and the record stays in the
\* store; a check that goes on to the delete has a failed probe.
C22_SuccessKeepsProxy ==
    [][\A loc \in Locs :
         (/\ Live(loc) /\ TaskAt(loc).pc = "set"
          /\ TaskAt(loc)'.pc # "set"
          /\ TaskAt(loc).id \in DOMAIN proxies
          /\ TaskAt(loc).success
          /\ now - TaskAt(loc).last_ok_at <= 60)
         => /\ TaskAt(loc)'.pc = "done"
            /\ ~TaskAt(loc)'.deleted
            /\ TaskAt(loc).id \in DOMAIN proxies'
            /\ proxies'[TaskAt(loc).id].status = "OK"]_vars

\* a check whose probe succeeded at minute 61 on a proxy created at minute 0
\* and last OK, if ever, at minute 0 has returned and the proxy is in the store
C22_KeptAt61 ==
    \E loc \in Locs :
        /\ Live(loc) /\ TaskAt(loc).pc = "done" /\ TaskAt(loc).success
        /\ ~TaskAt(loc).deleted
        /\ TaskAt(loc).checked_at = 61
        /\ Len(TaskAt(loc).check_history) \in {1, HISTORY_CAP}
        /\ TaskAt(loc).id \in DOMAIN proxies
        /\ proxies[TaskAt(loc).id].last_ok_at = 61

C24_DueSourceIngested ==
    \A s \in {"s2", "s3"} :
        (sources[s].checked_at = NoTime \/ now - sources[s].checked_at > 60)
        ~> (sources[s].checked_at = now)

\* C25: with checking enabled, the proxy_check job firing forever and no new
\* proxies arriving, every proxy is eventually checked (or deleted), and a
\* proxy whose probes all fail from some minute on is eventually deleted:
\* once the clock is past the hour every proxy is gone from the store or was
\* OK within the last hour.
C25_DeadProxyDeleted ==
    \A i \in 1..3 :
        /\ <>(i \notin DOMAIN proxies \/ proxies[i].checked_at # NoTime)
        /\ <>(\/ i \notin DOMAIN proxies
              \/ /\ now = 61
                 /\ proxies[i].last_ok_at # NoTime
                 /\ now - proxies[i].last_ok_at <= 60)

\* a check whose probe failed at minute 61 has deleted a proxy that was
\* never OK, and no never-checked proxy is left in the store
C25_DeletedAfterHour ==
    /\ now = 61
    /\ \E loc \in Locs :
         /\ Live(loc) /\ TaskAt(loc).pc = "done" /\ TaskAt(loc).deleted
         /\ ~TaskAt(loc).success
         /\ TaskAt(loc).id \notin DOMAIN proxies
    /\ \A i \in DOMAIN proxies : proxies[i].checked_at # NoTime

====
